---- MODULE Spec2Model ----
(***************************************************************************)
(* Escrow-session lifecycle of Lossy: create-session (api/session.js),     *)
(* the poll handler (api/poll/[sessionId].js), the key-value store         *)
(* (lib/redis.js) and the ledger helpers (lib/solana.js).                  *)
(*                                                                         *)
(* One session is followed: the one made by create-session request 1; the *)
(* ledger is that of its escrow address and the polls are polls of it.    *)
(* Every `await` of a handler is a step, so                                *)
(* other invocations, deposits and the clock interleave exactly where the  *)
(* event loop lets them.  Time is in seconds; Date.now() is now * 1000.    *)
(* A null of the source is NULL for strings and 0 for the mint address,    *)
(* the signatures and the status code of an unanswered request.            *)
(***************************************************************************)
EXTENDS Integers, Sequences, FiniteSets, TLC

VARIABLES now, env, up, counter, store, addrKey, creator, ledger, started, pc, loc, resp

vars == <<now, env, up, counter, store, addrKey, creator, ledger, started, pc, loc, resp>>

(* ---------------------------- bounds ----------------------------------- *)
MaxPolls == 2
MaxDeposits == 2
MaxTicks == 2
TickSeconds == 1000

(* ------------------------ program constants ---------------------------- *)
REQUIRED_USDC == 2250000
SESSION_TTL == 1800
TTL_MINTING == 3600
TTL_DONE == 86400
ATA_INIT_LAMPORTS == 3000000
SOL_FEE == 5000
SIG_LIMIT == 10
SESSION_OFFSET == 1000
MASTER_INDEX == 0

NULL == "null"
ESCROW == "escrow"
TREASURY == "treasury"
Buyers == <<"buyerA", "buyerB", "buyerC">>
DepositAmounts == {1000000, 2250000}
Polls == {1, 2}
Creators == {1, 2}
Uploaders == {1, 2}
Cids == {"bafyA", "bafyB"}

(* The values redis.incr can hand out to the create-session requests. *)
SessionIds == 0..Cardinality(Creators)

(* Date.now() *)
DateNow == now * 1000

(* --------------------------- lib/redis.js ------------------------------ *)
(* redis.set(key, value, exSeconds): SET key val EX exSeconds *)
RedisSet(value, exSeconds) == [val |-> value, evictAt |-> now + exSeconds]

(* The key is live until its time-to-live has run out. *)
Live(key) == now < key.evictAt

(* redis.incr as a read of the counter (GET) that does not add to it *)
redisIncrNoBump(n) == n

(* redis.incr(key): INCR, the new value of the counter, in one command *)
redisIncr(n) == n + 1

(* --------------------------- lib/wallet.js ----------------------------- *)
(* deriveKeypair(index): the keypair at the path m/44'/501'/index'/0' of  *)
(* the master seed; a keypair is named by its path.                        *)
deriveKeypair(index) == <<44, 501, index, 0>>

getMasterKeypair == deriveKeypair(MASTER_INDEX)

getSessionKeypair(sessionIndex) == deriveKeypair(SESSION_OFFSET + sessionIndex)

NoAddress == <<>>

(* --------------------------- error messages ---------------------------- *)
(* An error message is a sequence of words; String.includes is a search   *)
(* for a contiguous run of words.                                          *)
Includes(msg, pat) ==
  \E i \in 1..(Len(msg) - Len(pat) + 1) : SubSeq(msg, i, i + Len(pat) - 1) = pat

MsgGasLower == <<"Transfer:", "insufficient", "lamports", "0,", "need", "15616720">>
MsgGasUpper == <<"Insufficient", "lamports", "for", "fee">>
MsgUpload == <<"Pinata", "metadata", "upload", "failed:">>
MsgTx == <<"Transaction", "simulation", "failed">>
MsgRedis == <<"Redis", "error:">>
MsgSeed == <<"MASTER_SEED_PHRASE", "not", "configured">>
MsgJwt == <<"PINATA_JWT", "not", "configured">>
MsgKey == <<"NFT_STORAGE_KEY", "not", "configured">>
MsgParse == <<"maxFileSize", "exceeded">>
MsgNoFile == <<"No", "file", "provided">>
MsgAllFailed == <<"All", "IPFS", "upload", "attempts", "failed.">>
NoMsg == <<>>

(* The failures of the createNft transaction of mintNft: kind (what went  *)
(* wrong) and the message thrown.                                          *)
MintFailures ==
  { [kind |-> "gas", msg |-> MsgGasLower],
    [kind |-> "gas", msg |-> MsgGasUpper],
    [kind |-> "tx", msg |-> MsgTx] }

isInsufficientSol(errMsg) ==
  Includes(errMsg, <<"insufficient", "lamports">>) \/ Includes(errMsg, <<"Insufficient", "lamports">>)

(* --------------------------- lib/solana.js ----------------------------- *)
(* getUsdcBalance: the token account's amount; every failure of the read *)
(* (no token account yet, RPC error) is caught and reads as 0            *)
getUsdcBalance(rpcFails) == IF rpcFails THEN 0 ELSE ledger.usdc

(* findUsdcSender: scan the newest SIG_LIMIT transactions, newest first;  *)
(* skip those getTransaction returned null for (the set missing); return  *)
(* the first owner whose USDC went down (by amount) and who is not the    *)
(* receiver.  ledger.txs holds, newest first, the account each transfer   *)
(* was taken from.                                                         *)
RECURSIVE ScanSender(_, _, _)
ScanSender(txs, i, missing) ==
  IF i > Len(txs) \/ i > SIG_LIMIT THEN NULL
  ELSE IF i \notin missing /\ txs[i].amount > 0 /\ txs[i].owner # ESCROW
    THEN txs[i].owner
  ELSE ScanSender(txs, i + 1, missing)

findUsdcSender(rpcFails, missing) ==
  IF rpcFails THEN NULL ELSE ScanSender(ledger.txs, 1, missing)

(* --------------------------- records ----------------------------------- *)
NoSession ==
  [sessionIndex |-> 0, paymentAddress |-> NoAddress, status |-> NULL,
   expiresAt |-> 0, buyerWallet |-> NULL,
   mintAddress |-> 0, mintSignature |-> 0, sweepSignature |-> 0]

NoResp ==
  [code |-> 0, status |-> NULL, mintAddress |-> 0, mintSignature |-> 0,
   paymentAddress |-> NoAddress, requiredUsdc |-> 0,
   receivedUsdc |-> 0 - 1, buyerWallet |-> NULL, error |-> NoMsg]

(* The locals of one poll invocation: session (the in-memory copy),      *)
(* testMode, balance, buyerWallet, errMsg; loaded is the record as it was *)
(* when redis.getJson returned it, balanceRead whether getUsdcBalance was called,   *)
(* outcome what mintNft did ("none" before it ran, "uploaded", "ok", or the kind of *)
(* its failure), toSend the amount a sweep transfer is about to move.     *)
NoLoc ==
  [session |-> NoSession, testMode |-> FALSE, balance |-> 0 - 1,
   buyerWallet |-> NULL, errMsg |-> NoMsg, loaded |-> NoSession,
   balanceRead |-> FALSE, outcome |-> "none", toSend |-> 0]

Respond(code, status) == [NoResp EXCEPT !.code = code, !.status = status]

NoKey == [val |-> NoSession, evictAt |-> 0]

NoAddr == [val |-> 0, evictAt |-> 0]

NoCreator == [pc |-> "idle", session |-> NoSession, code |-> 0]

(* The locals and the answer of one upload request: calls are the         *)
(* endpoints it has called with what came back, tmpFile whether the       *)
(* temporary file of its body is on disk.                                 *)
NoUpload ==
  [pc |-> "idle", cid |-> NULL, calls |-> <<>>, tmpFile |-> FALSE,
   code |-> 0, error |-> NoMsg, respCid |-> NULL, fileUri |-> NoMsg]

(* The session the polls ask for, and its key in the store. *)
Polled == creator[1].session.sessionIndex

Created == creator[1].pc = "done" /\ creator[1].code = 200

(* redis.getJson(key): the parsed record, null (NoSession) for a missing  *)
(* or evicted key                                                          *)
RedisGetJson(key) == IF Live(key) THEN key.val ELSE NoSession

(* ------------------------------ Init ----------------------------------- *)
Init ==
  /\ now = 0
  /\ env = [seed |-> TRUE, jwt |-> TRUE]
  /\ up = [u \in Uploaders |-> NoUpload]
  /\ counter = 0
  /\ store = [i \in SessionIds |-> NoKey]
  /\ addrKey = [i \in SessionIds |-> NoAddr]
  /\ creator = [c \in Creators |-> NoCreator]
  /\ ledger = [usdc |-> 0, sol |-> 0, solOut |-> 0, txs |-> <<>>, mints |-> <<>>]
  /\ started = 0
  /\ pc = [p \in Polls |-> "idle"]
  /\ loc = [p \in Polls |-> NoLoc]
  /\ resp = [p \in Polls |-> NoResp]

(* ---------------------------- environment ------------------------------ *)
Tick ==
  /\ creator[1].pc # "idle"
  /\ now < MaxTicks * TickSeconds
  /\ now' = now + TickSeconds
  /\ UNCHANGED <<env, up, counter, store, addrKey, creator, ledger, started, pc, loc, resp>>

(* The number of payments made so far; the k-th comes from the k-th buyer. *)
Deposits == Cardinality({i \in 1..Len(ledger.txs) : ledger.txs[i].owner # ESCROW})

(* All the USDC the escrow address has ever received. *)
RECURSIVE SumDeposits(_, _)
SumDeposits(txs, i) ==
  IF i > Len(txs) THEN 0
  ELSE (IF txs[i].owner # ESCROW THEN txs[i].amount ELSE 0) + SumDeposits(txs, i + 1)

Received == SumDeposits(ledger.txs, 1)

(* A buyer sends USDC to the payment address shown by create-session. *)
Deposit ==
  /\ Created
  /\ Deposits < MaxDeposits
  /\ \E amt \in DepositAmounts :
       ledger' = [ledger EXCEPT !.usdc = @ + amt,
                                !.txs = <<[owner |-> Buyers[Deposits + 1], amount |-> amt]>> \o @]
  /\ UNCHANGED <<now, env, up, counter, store, addrKey, creator, started, pc, loc, resp>>

(* --------------------------- api/upload.js ----------------------------- *)
(* What an endpoint of the storage service can come back with: a JSON    *)
(* body d (d.ok, and the identifier at d.value.cid or d.value.ipnft, NULL *)
(* when there is none), or an exception of fetch or of r.json().          *)
AttemptResults ==
  [kind : {"json"}, ok : BOOLEAN, id : Cids \cup {NULL}]
    \cup {[kind |-> "exception", ok |-> FALSE, id |-> NULL]}

(* lines 57-61 and 80-84: cid takes the identifier of a body that is ok   *)
(* and has one                                                             *)
cidFrom(r) == IF r.kind = "json" /\ r.ok /\ r.id # NULL THEN r.id ELSE NULL

(* line 68 without its test: the second endpoint is always tried *)
SecondAttemptAlways(cid) == TRUE

(* line 68: if (!cid) *)
SecondAttemptNeeded(cid) == cid = NULL

(* fileUri (line 98) *)
fileUri(cid) == <<"https://nftstorage.link/ipfs/", cid>>

(* lines 14-40: the key, the multipart body, the file; formidable has     *)
(* written the temporary file when the body parsed (it may have when the  *)
(* parse failed); any throw goes to the catch of line 108                 *)
UploadParse(u) ==
  /\ up[u].pc = "idle"
  /\ \/ up' = [up EXCEPT ![u].pc = "attempt1", ![u].tmpFile = TRUE]
     \/ \E msg \in {MsgKey, MsgNoFile} :
          up' = [up EXCEPT ![u].pc = "done", ![u].code = 500, ![u].error = msg]
     \/ \E left \in BOOLEAN :
          up' = [up EXCEPT ![u].pc = "done", ![u].code = 500, ![u].error = MsgParse,
                           ![u].tmpFile = left]
  /\ UNCHANGED <<now, env, counter, store, addrKey, creator, ledger, started, pc, loc, resp>>

(* lines 45-68: the first attempt, at /upload *)
UploadAttempt1(u) ==
  /\ up[u].pc = "attempt1"
  /\ \E r \in AttemptResults :
       up' = [up EXCEPT
                ![u].calls = Append(@, [endpoint |-> "upload", result |-> r]),
                ![u].cid = cidFrom(r),
                ![u].pc = IF SecondAttemptNeeded(cidFrom(r)) THEN "attempt2" ELSE "cleanup"]
  /\ UNCHANGED <<now, env, counter, store, addrKey, creator, ledger, started, pc, loc, resp>>

(* lines 69-88: the second attempt, at /store *)
UploadAttempt2(u) ==
  /\ up[u].pc = "attempt2"
  /\ \E r \in AttemptResults :
       up' = [up EXCEPT
                ![u].calls = Append(@, [endpoint |-> "store", result |-> r]),
                ![u].cid = cidFrom(r),
                ![u].pc = "cleanup"]
  /\ UNCHANGED <<now, env, counter, store, addrKey, creator, ledger, started, pc, loc, resp>>

(* lines 91-110: unlinkSync of the temporary file, which the handler has  *)
(* just read, then the error of line 95 (answered 500 by the catch) or    *)
(* the answer 200 with fileUri and cid                                     *)
UploadCleanup(u) ==
  /\ up[u].pc = "cleanup"
  /\ up' = [up EXCEPT
              ![u].pc = "done",
              ![u].tmpFile = FALSE,
              ![u].code = IF up[u].cid = NULL THEN 500 ELSE 200,
              ![u].error = IF up[u].cid = NULL THEN MsgAllFailed ELSE NoMsg,
              ![u].respCid = up[u].cid,
              ![u].fileUri = IF up[u].cid = NULL THEN NoMsg ELSE fileUri(up[u].cid)]
  /\ UNCHANGED <<now, env, counter, store, addrKey, creator, ledger, started, pc, loc, resp>>

Upload(u) == UploadParse(u) \/ UploadAttempt1(u) \/ UploadAttempt2(u) \/ UploadCleanup(u)

(* A deployment changes which of the secrets MASTER_SEED_PHRASE and      *)
(* PINATA_JWT are in process.env.                                          *)
Reconfigure ==
  /\ \E seed \in BOOLEAN, jwt \in BOOLEAN :
       env' = [seed |-> seed, jwt |-> jwt]
  /\ env' # env
  /\ UNCHANGED <<now, up, counter, store, addrKey, creator, ledger, started, pc, loc, resp>>

(* ------------------------ api/session.js ------------------------------- *)
(* res.status(500).json({error}) of the catch (lines 82-85) *)
CreateFails(c) == creator' = [creator EXCEPT ![c].pc = "done", ![c].code = 500]

(* line 28: sessionIndex = await redis.incr(...) *)
CreateIncr(c) ==
  /\ creator[c].pc = "idle"
  /\ \/ /\ counter' = redisIncr(counter)
        /\ creator' = [creator EXCEPT ![c].pc = "build",
                                      ![c].session.sessionIndex = redisIncr(counter)]
     \/ /\ CreateFails(c)
        /\ UNCHANGED counter
  /\ UNCHANGED <<now, env, up, store, addrKey, ledger, started, pc, loc, resp>>

(* lines 31-51: key derivation (it throws without the seed phrase) and    *)
(* the session record                                                      *)
CreateBuild(c) ==
  /\ creator[c].pc = "build"
  /\ IF env.seed
       THEN creator' = [creator EXCEPT
              ![c].pc = "setSession",
              ![c].session = [NoSession EXCEPT
                 !.sessionIndex = creator[c].session.sessionIndex,
                 !.paymentAddress = getSessionKeypair(creator[c].session.sessionIndex),
                 !.status = "pending",
                 !.expiresAt = DateNow + SESSION_TTL * 1000]]
       ELSE CreateFails(c)
  /\ UNCHANGED <<now, env, up, counter, store, addrKey, ledger, started, pc, loc, resp>>

(* redis.set(`session:${sessionId}`, session, SESSION_TTL) (line 54) *)
CreateSetSession(c) ==
  /\ creator[c].pc = "setSession"
  /\ \/ /\ store' = [store EXCEPT ![creator[c].session.sessionIndex] =
                       RedisSet(creator[c].session, SESSION_TTL)]
        /\ creator' = [creator EXCEPT ![c].pc = "setAddress"]
     \/ /\ CreateFails(c)
        /\ UNCHANGED store
  /\ UNCHANGED <<now, env, up, counter, addrKey, ledger, started, pc, loc, resp>>

(* redis.set(`address:${paymentAddress}`, sessionId, SESSION_TTL) (line 56) *)
CreateSetAddress(c) ==
  /\ creator[c].pc = "setAddress"
  /\ \/ /\ addrKey' = [addrKey EXCEPT ![creator[c].session.sessionIndex] =
                         RedisSet(creator[c].session.sessionIndex, SESSION_TTL)]
        /\ creator' = [creator EXCEPT ![c].pc = "fund"]
     \/ /\ CreateFails(c)
        /\ UNCHANGED addrKey
  /\ UNCHANGED <<now, env, up, counter, store, ledger, started, pc, loc, resp>>

(* CreateFund without the try/catch around the funding: a failure goes to *)
(* the outer catch and the request answers 500                             *)
CreateFundFatal(c) ==
  /\ creator[c].pc = "fund"
  /\ \/ /\ creator[c].session.paymentAddress = creator[1].session.paymentAddress
        /\ ledger' = [ledger EXCEPT !.sol = @ + ATA_INIT_LAMPORTS]
        /\ creator' = [creator EXCEPT ![c].pc = "done", ![c].code = 200]
     \/ /\ UNCHANGED ledger
        /\ CreateFails(c)
  /\ UNCHANGED <<now, env, up, counter, store, addrKey, started, pc, loc, resp>>

(* fundDerivedWallet then initUsdcAta; a failure of either is caught      *)
(* (lines 61-68) and the request still answers 200 (line 70).  The ledger *)
(* kept here is that of the escrow address of request 1.                  *)
CreateFund(c) ==
  /\ creator[c].pc = "fund"
  /\ \/ /\ creator[c].session.paymentAddress = creator[1].session.paymentAddress
        /\ ledger' = [ledger EXCEPT !.sol = @ + ATA_INIT_LAMPORTS]
     \/ UNCHANGED ledger
  /\ creator' = [creator EXCEPT ![c].pc = "done", ![c].code = 200]
  /\ UNCHANGED <<now, env, up, counter, store, addrKey, started, pc, loc, resp>>

(* ------------------- api/poll/[sessionId].js: handler ------------------ *)
(* EarlyResponse without the re-entrancy guard of lines 30-32 *)
EarlyResponseNoGuard(session) ==
  IF session.status = NULL THEN Respond(404, NULL)
  ELSE IF session.status = "minted"
    THEN [Respond(200, "minted") EXCEPT !.mintAddress = session.mintAddress,
                                        !.mintSignature = session.mintSignature]
  ELSE IF DateNow > session.expiresAt THEN Respond(200, "expired")
  ELSE NoResp

(* EarlyResponse without the early return for 'minted' of lines 34-42 *)
EarlyResponseNoMinted(session) ==
  IF session.status = NULL THEN Respond(404, NULL)
  ELSE IF session.status = "minting" THEN Respond(200, "minting")
  ELSE IF DateNow > session.expiresAt THEN Respond(200, "expired")
  ELSE NoResp

(* The answer the handler gives right after loading the session (lines    *)
(* 28-46); NoResp when it goes on to the balance check.                   *)
EarlyResponse(session) ==
  IF session.status = NULL THEN Respond(404, NULL)
  ELSE IF session.status = "minting" THEN Respond(200, "minting")
  ELSE IF session.status = "minted"
    THEN [Respond(200, "minted") EXCEPT !.mintAddress = session.mintAddress,
                                        !.mintSignature = session.mintSignature]
  ELSE IF DateNow > session.expiresAt THEN Respond(200, "expired")
  ELSE NoResp

(* StillPending with a threshold of "anything at all" *)
StillPendingAnyAmount(testMode, balance) == ~testMode /\ balance <= 0

(* line 53: the payment is not there yet *)
StillPending(testMode, balance) == ~testMode /\ balance < REQUIRED_USDC

(* The status the catch block stores for a mint error (lines 79-93) *)
FailureStatus(errMsg) == IF isInsufficientSol(errMsg) THEN "needs_funding" ELSE "paid"

(* The invocation answers and ends; its locals are gone with it. *)
Finish(p, response) ==
  /\ pc' = [pc EXCEPT ![p] = "done"]
  /\ resp' = [resp EXCEPT ![p] = response]
  /\ loc' = [loc EXCEPT ![p] = NoLoc]

(* res.status(500).json({error: err.message}) of the outer catch (lines  *)
(* 122-125)                                                                *)
Throw500(p, msg) == Finish(p, [Respond(500, NULL) EXCEPT !.error = msg])

(* The store threw. *)
Fail500(p) == Throw500(p, MsgRedis)

(* The invocation in slot p has been received and has not answered yet. *)
InFlight(p) == pc[p] \notin {"idle", "done"}

(* lines 27-49: redis.getJson, the early returns, getSessionKeypair *)
Load(p) ==
  /\ pc[p] \in {"idle", "done"}
  /\ Created
  /\ IF p = 1 THEN TRUE ELSE InFlight(p - 1)
  /\ started < MaxPolls
  /\ started' = started + 1
  /\ \/ Fail500(p)
     \/ \E test \in BOOLEAN :
          LET session == RedisGetJson(store[Polled])
              early == EarlyResponse(session)
          IN  IF early # NoResp
                THEN Finish(p, early)
              ELSE IF ~env.seed
                THEN Throw500(p, MsgSeed)
                ELSE /\ pc' = [pc EXCEPT ![p] = "balance"]
                     /\ loc' = [loc EXCEPT ![p].session = session,
                                           ![p].testMode = test,
                                           ![p].loaded = session]
                     /\ resp' = [resp EXCEPT ![p] = NoResp]
  /\ UNCHANGED <<now, env, up, counter, store, addrKey, creator, ledger>>

(* lines 50-63: read the balance unless ?test=true, answer 'pending' or   *)
(* set session.status = 'minting'                                          *)
ReadBalance(p) ==
  /\ pc[p] = "balance"
  /\ \E rpcFails \in BOOLEAN :
       LET testMode == loc[p].testMode
           balance == IF testMode THEN REQUIRED_USDC ELSE getUsdcBalance(rpcFails)
       IN  IF StillPending(testMode, balance)
             THEN Finish(p, [Respond(200, "pending") EXCEPT
                               !.paymentAddress = loc[p].session.paymentAddress,
                               !.requiredUsdc = REQUIRED_USDC,
                               !.receivedUsdc = balance])
             ELSE /\ pc' = [pc EXCEPT ![p] = "setMinting"]
                  /\ loc' = [loc EXCEPT ![p].balance = balance,
                                        ![p].balanceRead = ~testMode,
                                        ![p].session.status = "minting"]
                  /\ UNCHANGED resp
  /\ UNCHANGED <<now, env, up, started, counter, store, addrKey, creator, ledger>>

(* SetMinting that does not wait for the write: the handler goes on to    *)
(* sender detection whether or not 'minting' has reached the store         *)
SetMintingNotAwaited(p) ==
  /\ pc[p] = "setMinting"
  /\ \/ store' = [store EXCEPT ![Polled] = RedisSet(loc[p].session, TTL_MINTING)]
     \/ UNCHANGED store
  /\ pc' = [pc EXCEPT ![p] = "findSender"]
  /\ UNCHANGED <<now, env, up, started, counter, addrKey, creator, ledger, loc, resp>>

(* line 64: redis.set(session, 60 * 60) *)
SetMinting(p) ==
  /\ pc[p] = "setMinting"
  /\ \/ /\ store' = [store EXCEPT ![Polled] = RedisSet(loc[p].session, TTL_MINTING)]
        /\ pc' = [pc EXCEPT ![p] = "findSender"]
        /\ UNCHANGED <<loc, resp>>
     \/ /\ Fail500(p)
        /\ UNCHANGED store
  /\ UNCHANGED <<now, env, up, started, counter, addrKey, creator, ledger>>

(* lines 66-67: findUsdcSender, session.buyerWallet = buyerWallet *)
FindSender(p) ==
  /\ pc[p] = "findSender"
  /\ \E rpcFails \in BOOLEAN, missing \in SUBSET (1..Len(ledger.txs)) :
       LET buyerWallet == findUsdcSender(rpcFails, missing)
       IN  loc' = [loc EXCEPT ![p].buyerWallet = buyerWallet,
                              ![p].session.buyerWallet = buyerWallet]
  /\ pc' = [pc EXCEPT ![p] = "setBuyer"]
  /\ UNCHANGED <<now, env, up, started, counter, store, addrKey, creator, ledger, resp>>

(* line 68: redis.set(session, 60 * 60) *)
SetBuyer(p) ==
  /\ pc[p] = "setBuyer"
  /\ \/ /\ store' = [store EXCEPT ![Polled] = RedisSet(loc[p].session, TTL_MINTING)]
        /\ pc' = [pc EXCEPT ![p] = "mint"]
        /\ UNCHANGED <<loc, resp>>
     \/ /\ Fail500(p)
        /\ UNCHANGED store
  /\ UNCHANGED <<now, env, up, started, counter, addrKey, creator, ledger>>

(* tokenOwner without the fallback to the master wallet *)
tokenOwnerNoFallback(buyerWallet) == buyerWallet

(* mintNft (lines 128-247): the token goes to the buyer if one was found, *)
(* to the treasury otherwise (lines 214-216); createNft is the one        *)
(* transaction it submits.                                                *)
tokenOwner(buyerWallet) == IF buyerWallet # NULL THEN buyerWallet ELSE TREASURY

(* The catch block of the mint (lines 76-93) takes the error: errMsg and *)
(* the status it will store go into the locals.                            *)
MintThrows(p, kind, msg) ==
  /\ loc' = [loc EXCEPT ![p].errMsg = msg,
                        ![p].session.status = FailureStatus(msg),
                        ![p].outcome = kind]
  /\ pc' = [pc EXCEPT ![p] = "setFail"]

(* mintNft up to the metadata upload (lines 128-205): getMasterKeypair    *)
(* needs the seed phrase, the upload needs PINATA_JWT, and the upload     *)
(* must come back with an IpfsHash                                         *)
MintUpload(p) ==
  /\ pc[p] = "mint"
  /\ IF ~env.seed THEN MintThrows(p, "config", MsgSeed)
     ELSE IF ~env.jwt THEN MintThrows(p, "config", MsgJwt)
     ELSE \/ /\ pc' = [pc EXCEPT ![p] = "mintTx"]
             /\ loc' = [loc EXCEPT ![p].outcome = "uploaded"]
          \/ MintThrows(p, "upload", MsgUpload)
  /\ UNCHANGED <<now, env, up, started, counter, store, addrKey, creator, ledger, resp>>

(* Mint that sets the status but not the mint fields before the write *)
MintStatusOnly(p) ==
  /\ pc[p] = "mintTx"
  /\ \/ /\ ledger' = [ledger EXCEPT !.mints = Append(@, tokenOwner(loc[p].buyerWallet))]
        /\ loc' = [loc EXCEPT ![p].session.status = "minted",
                              ![p].outcome = "ok"]
        /\ pc' = [pc EXCEPT ![p] = "setMinted"]
     \/ /\ \E f \in MintFailures : MintThrows(p, f.kind, f.msg)
        /\ UNCHANGED ledger
  /\ UNCHANGED <<now, env, up, started, counter, store, addrKey, creator, resp>>

(* mintNft from the createNft transaction on (lines 207-246), then lines  *)
(* 71-74 or the catch block: either the mint fields or the status of the  *)
(* failure are put into the in-memory session                              *)
Mint(p) ==
  /\ pc[p] = "mintTx"
  /\ \/ /\ ledger' = [ledger EXCEPT !.mints = Append(@, tokenOwner(loc[p].buyerWallet))]
        /\ loc' = [loc EXCEPT ![p].session.status = "minted",
                              ![p].session.mintAddress = Len(ledger.mints) + 1,
                              ![p].session.mintSignature = Len(ledger.mints) + 1,
                              ![p].outcome = "ok"]
        /\ pc' = [pc EXCEPT ![p] = "setMinted"]
     \/ /\ \E f \in MintFailures : MintThrows(p, f.kind, f.msg)
        /\ UNCHANGED ledger
  /\ UNCHANGED <<now, env, up, started, counter, store, addrKey, creator, resp>>

(* SetMinted with the write outside the try: a throw of the store is not  *)
(* noticed and the handler goes on to the sweep                            *)
SetMintedUnchecked(p) ==
  /\ pc[p] = "setMinted"
  /\ \/ store' = [store EXCEPT ![Polled] = RedisSet(loc[p].session, TTL_DONE)]
     \/ UNCHANGED store
  /\ pc' = [pc EXCEPT ![p] = "sweepUsdc"]
  /\ UNCHANGED <<now, env, up, started, counter, addrKey, creator, ledger, loc, resp>>

(* line 75: redis.set(session, 60 * 60 * 24); it is inside the try, so a  *)
(* throw of the store lands in the catch block of the mint (line 76)      *)
SetMinted(p) ==
  /\ pc[p] = "setMinted"
  /\ \/ /\ store' = [store EXCEPT ![Polled] = RedisSet(loc[p].session, TTL_DONE)]
        /\ pc' = [pc EXCEPT ![p] = "sweepUsdc"]
        /\ UNCHANGED loc
     \/ /\ loc' = [loc EXCEPT ![p].errMsg = MsgRedis,
                              ![p].session.status = FailureStatus(MsgRedis)]
        /\ pc' = [pc EXCEPT ![p] = "setFail"]
        /\ UNCHANGED store
  /\ UNCHANGED <<now, env, up, started, counter, addrKey, creator, ledger, resp>>

(* lines 85-90 and 94-100: redis.set(session, 60 * 60 * 24) and the       *)
(* answer carrying the status, the error and the buyer                    *)
SetFail(p) ==
  /\ pc[p] = "setFail"
  /\ \/ /\ store' = [store EXCEPT ![Polled] = RedisSet(loc[p].session, TTL_DONE)]
        /\ Finish(p, [Respond(200, loc[p].session.status) EXCEPT
                        !.error = loc[p].errMsg, !.buyerWallet = loc[p].buyerWallet])
     \/ /\ Fail500(p)
        /\ UNCHANGED store
  /\ UNCHANGED <<now, env, up, started, counter, addrKey, creator, ledger>>

(* lines 113-120: the answer after the sweep block, whatever it did *)
RespondMinted(p) ==
  Finish(p, [Respond(200, "minted") EXCEPT
               !.mintAddress = loc[p].session.mintAddress,
               !.mintSignature = loc[p].session.mintSignature,
               !.buyerWallet = loc[p].buyerWallet])

(* line 104: getMasterKeypair (a throw is caught at line 109); then      *)
(* sweepUsdc, lines 122-123 of lib/solana.js: read the balance, nothing   *)
(* to do when it is 0                                                      *)
SweepUsdcRead(p) ==
  /\ pc[p] = "sweepUsdc"
  /\ IF ~env.seed THEN RespondMinted(p)
     ELSE \E rpcFails \in BOOLEAN :
       LET balance == getUsdcBalance(rpcFails)
       IN  /\ IF balance = 0
                THEN /\ loc' = [loc EXCEPT ![p].session.sweepSignature = 0]
                     /\ pc' = [pc EXCEPT ![p] = "sweepSol"]
                ELSE /\ loc' = [loc EXCEPT ![p].toSend = balance]
                     /\ pc' = [pc EXCEPT ![p] = "sweepUsdcSend"]
           /\ UNCHANGED resp
  /\ UNCHANGED <<now, env, up, started, counter, store, addrKey, creator, ledger>>

(* sweepUsdc, lines 125-140: transfer the balance that was read; the      *)
(* escrow signs and pays the fee.  A throw is caught at line 109.         *)
SweepUsdcSend(p) ==
  /\ pc[p] = "sweepUsdcSend"
  /\ \/ /\ ledger.usdc >= loc[p].toSend
        /\ ledger.sol >= SOL_FEE
        /\ ledger' = [ledger EXCEPT !.usdc = @ - loc[p].toSend,
                                    !.sol = @ - SOL_FEE,
                                    !.txs = <<[owner |-> ESCROW, amount |-> loc[p].toSend]>> \o @]
        /\ loc' = [loc EXCEPT ![p].session.sweepSignature = Len(ledger.txs) + 1,
                              ![p].toSend = 0]
        /\ pc' = [pc EXCEPT ![p] = "sweepSol"]
        /\ UNCHANGED resp
     \/ /\ RespondMinted(p)
        /\ UNCHANGED ledger
  /\ UNCHANGED <<now, env, up, started, counter, store, addrKey, creator>>

(* sweepSol with a buffer of two fees *)
solToSendTwoFees(balance) == balance - 2 * SOL_FEE

(* sweepSol, lines 149-150: what is left after the fee *)
solToSend(balance) == balance - SOL_FEE

(* sweepSol (lib/solana.js lines 147-163), then session.status = 'swept'  *)
(* (line 107); ledger.solOut is what the master wallet got, the network   *)
(* fee of the transfer is SOL_FEE                                          *)
SweepSol(p) ==
  /\ pc[p] = "sweepSol"
  /\ LET balance == ledger.sol
         toSend == solToSend(balance)
     IN  \/ /\ IF toSend <= 0 THEN UNCHANGED ledger
                ELSE /\ toSend + SOL_FEE <= balance
                     /\ ledger' = [ledger EXCEPT !.sol = @ - toSend - SOL_FEE,
                                                 !.solOut = @ + toSend]
            /\ loc' = [loc EXCEPT ![p].session.status = "swept"]
            /\ pc' = [pc EXCEPT ![p] = "setSwept"]
            /\ UNCHANGED resp
         \/ /\ RespondMinted(p)
            /\ UNCHANGED ledger
  /\ UNCHANGED <<now, env, up, started, counter, store, addrKey, creator>>

(* line 108: redis.set(session, 60 * 60 * 24); a throw is caught at 109 *)
SetSwept(p) ==
  /\ pc[p] = "setSwept"
  /\ \/ store' = [store EXCEPT ![Polled] = RedisSet(loc[p].session, TTL_DONE)]
     \/ UNCHANGED store
  /\ RespondMinted(p)
  /\ UNCHANGED <<now, env, up, started, counter, addrKey, creator, ledger>>

Poll(p) ==
  \/ Load(p) \/ ReadBalance(p) \/ SetMinting(p) \/ FindSender(p) \/ SetBuyer(p)
  \/ MintUpload(p) \/ Mint(p) \/ SetMinted(p) \/ SetFail(p) \/ SweepUsdcRead(p) \/ SweepUsdcSend(p)
  \/ SweepSol(p) \/ SetSwept(p)

Create(c) ==
  \/ CreateIncr(c) \/ CreateBuild(c) \/ CreateSetSession(c)
  \/ CreateSetAddress(c) \/ CreateFund(c)

(* Polls of the session that never overlap: each answers before the next  *)
(* is received.                                                            *)
Next ==
  \/ Tick
  \/ Deposit
  \/ Create(1)
  \/ Poll(1)

Spec == Init /\ [][Next]_vars

(* Two invocations of the poll handler may run at the same time, the     *)
(* payments having been made before the first poll.                       *)
NextRace ==
  \/ started = 0 /\ Deposit
  \/ Create(1)
  \/ \E p \in Polls : Poll(p)

SpecRace == Init /\ [][NextRace]_vars

(* Polls that do not overlap, while deployments add and remove secrets. *)
NextConfig ==
  \/ Reconfigure
  \/ Deposit
  \/ Create(1)
  \/ Poll(1)

SpecConfig == Init /\ [][NextConfig]_vars

(* Create-session requests that run at the same time. *)
NextCreate ==
  \/ Tick
  \/ \E c \in Creators : Create(c)

SpecCreate == Init /\ [][NextCreate]_vars

(* Polls that do not overlap, every payment made before the first poll. *)
NextSweep ==
  \/ started = 0 /\ Deposit
  \/ Create(1)
  \/ Poll(1)

SpecSweep == Init /\ [][NextSweep]_vars

(* Two invocations of the poll handler may run at the same time while the *)
(* clock goes on, the payments having been made before the first poll.    *)
NextExpire ==
  \/ Tick
  \/ started = 0 /\ Deposit
  \/ Create(1)
  \/ \E p \in Polls : Poll(p)

SpecExpire == Init /\ [][NextExpire]_vars

(* Upload requests that run at the same time. *)
NextUpload == \E u \in Uploaders : Upload(u)

SpecUpload == Init /\ [][NextUpload]_vars

(* ------------------------------ claims --------------------------------- *)
(* The slot a request received now is served in, and the step that        *)
(* receives it and reads the session without the store failing.           *)
NextSlot == IF InFlight(1) THEN 2 ELSE 1

Loads(p) == started' = started + 1 /\ p = NextSlot /\ resp'[p].code # 500

Answered(p) == pc[p] = "done"

(* C1: of two polls of one session that run at the same time and both    *)
(* read a sufficient balance, at most one gets as far as calling mintNft. *)
C1_AtMostOneMintCall ==
  Cardinality({p \in Polls : loc[p].balanceRead /\ loc[p].outcome # "none"}) <= 1

(* C2: over any sequence of polls that do not overlap, at most one mint   *)
(* transaction succeeds for the session.                                  *)
C2_AtMostOneMint == Len(ledger.mints) <= 1

(* C3: once a poll has answered 'minted' with a mint address and          *)
(* signature, the next poll that finds the record answers 'minted' with   *)
(* the same two values.                                                   *)
C3_MintedAnswerRepeats ==
  [][\A p \in Polls :
       (/\ Loads(p)
        /\ Live(store[Polled])
        /\ \E q \in Polls : Answered(q) /\ resp[q].status = "minted")
       => \A q \in Polls :
            (Answered(q) /\ resp[q].status = "minted")
            => /\ pc'[p] = "done"
               /\ resp'[p].status = "minted"
               /\ resp'[p].mintAddress = resp[q].mintAddress
               /\ resp'[p].mintSignature = resp[q].mintSignature]_vars

(* C4: a poll that loads a record with status 'swept' answers at once     *)
(* with the stored mint result; it reads no balance, writes nothing and   *)
(* submits nothing.                                                       *)
C4_SweptPollOnlyReads ==
  [][\A p \in Polls :
       (Loads(p) /\ RedisGetJson(store[Polled]).status = "swept")
       => /\ pc'[p] = "done"
          /\ resp'[p].code = 200
          /\ resp'[p].mintAddress = store[Polled].val.mintAddress
          /\ resp'[p].mintSignature = store[Polled].val.mintSignature
          /\ UNCHANGED <<store, ledger>>]_vars

(* C5: a poll that loads a record with status 'minting' answers           *)
(* {status: 'minting'} at once and changes neither the store nor the      *)
(* ledger, at any time, with or without the test flag.                    *)
C5_MintingPollTakesNoAction ==
  [][\A p \in Polls :
       (Loads(p) /\ RedisGetJson(store[Polled]).status = "minting")
       => /\ pc'[p] = "done"
          /\ resp'[p] = Respond(200, "minting")
          /\ UNCHANGED <<store, ledger>>]_vars

C5_Witness == \E p \in Polls : Answered(p) /\ resp[p] = Respond(200, "minting")

(* C6: a poll holds status 'minting' only if it carries the test flag and *)
(* read no balance, or read a balance of at least REQUIRED_USDC; and      *)
(* 'minting' gets stored only by a poll with the test flag or when the    *)
(* address has received at least REQUIRED_USDC.                           *)
C6_Confirmed(p) ==
  IF loc[p].testMode
    THEN ~loc[p].balanceRead
    ELSE loc[p].balanceRead /\ loc[p].balance >= REQUIRED_USDC

C6_MintingOnlyWhenConfirmed ==
  /\ [](\A p \in Polls :
          (InFlight(p) /\ loc[p].session.status = "minting") => C6_Confirmed(p))
  /\ [][(store'[Polled].val.status = "minting" /\ store' # store)
         => \E p \in Polls :
              /\ pc[p] \in {"setMinting", "setBuyer"}
              /\ C6_Confirmed(p)
              /\ loc[p].testMode \/ Received >= REQUIRED_USDC]_vars

C6_Witness ==
  \E p \in Polls :
    /\ pc[p] = "findSender"
    /\ ~loc[p].testMode
    /\ store[Polled].val.status = "minting"

(* C7: when the address never received the required amount, every poll    *)
(* made after expiresAt answers {status: 'expired'}.                       *)
C7_ExpiredIsReported ==
  [][\A p \in Polls :
       (/\ Loads(p)
        /\ DateNow > creator[1].session.expiresAt
        /\ Received < REQUIRED_USDC)
       => resp'[p] = Respond(200, "expired")]_vars

(* C8: a poll answers 'expired' only when the stored status is 'pending'  *)
(* and the time is past expiresAt.                                        *)
C8_ExpiredFromPendingOnly ==
  [][\A p \in Polls :
       (Loads(p) /\ resp'[p].status = "expired")
       => /\ RedisGetJson(store[Polled]).status = "pending"
          /\ DateNow > RedisGetJson(store[Polled]).expiresAt]_vars

(* C9: when mintNft fails, the poll ends with the stored status           *)
(* 'needs_funding' for a treasury-gas failure and 'paid' for any other,   *)
(* and answers with that status and an error message.                     *)
C9_MintFailureIsStored ==
  [][\A p \in Polls :
       (pc[p] = "setFail" /\ loc[p].outcome # "ok" /\ pc'[p] = "done")
       => /\ store'[Polled].val.status =
               (IF loc[p].outcome = "gas" THEN "needs_funding" ELSE "paid")
          /\ resp'[p].status = store'[Polled].val.status
          /\ resp'[p].error # NoMsg]_vars

(* C10: a poll that loaded a record with a buyer, and stores 'paid' or    *)
(* 'needs_funding', stores that same buyer.                               *)
C10_BuyerIsKept ==
  [][\A p \in Polls :
       (/\ pc[p] = "setFail"
        /\ pc'[p] = "done"
        /\ resp'[p].code = 200
        /\ loc[p].loaded.buyerWallet # NULL)
       => store'[Polled].val.buyerWallet = loc[p].loaded.buyerWallet]_vars

(* C11: when the sweep throws after the mint (in sweepUsdc or in          *)
(* sweepSol), the stored record is left as it is, with status 'minted'    *)
(* and the mint address and signature of this poll, and the poll answers  *)
(* 'minted' with them; a later poll that loads 'minted' answers at once   *)
(* and submits no mint.                                                    *)
C11_SweepFailureKeepsMinted ==
  [][\A p \in Polls :
       /\ (pc[p] \in {"sweepUsdc", "sweepUsdcSend", "sweepSol"} /\ pc'[p] = "done")
          => /\ store' = store
             /\ store[Polled].val.status = "minted"
             /\ loc[p].session.mintAddress # 0
             /\ store[Polled].val.mintAddress = loc[p].session.mintAddress
             /\ store[Polled].val.mintSignature = loc[p].session.mintSignature
             /\ resp'[p].code = 200
             /\ resp'[p].status = "minted"
             /\ resp'[p].mintAddress = loc[p].session.mintAddress
             /\ resp'[p].mintSignature = loc[p].session.mintSignature
       /\ (Loads(p) /\ RedisGetJson(store[Polled]).status = "minted")
          => /\ pc'[p] = "done"
             /\ resp'[p].status = "minted"
             /\ UNCHANGED <<store, ledger>>]_vars

(* The escrow was funded and none of its SOL has moved, so the sweep      *)
(* threw; the store holds 'minted' and a second poll has answered         *)
(* 'minted'.                                                               *)
C11_Witness ==
  /\ started = 2
  /\ Answered(1)
  /\ resp[1].code = 200
  /\ resp[1].status = "minted"
  /\ store[Polled].val.status = "minted"
  /\ Len(ledger.mints) = 1
  /\ ledger.sol = ATA_INIT_LAMPORTS
  /\ ledger.usdc >= REQUIRED_USDC

(* C12: a poll that loads 'paid' or 'needs_funding' while the payment is  *)
(* at the escrow address is never turned away: it goes on to the balance  *)
(* check, whatever the time, and from there a sufficient balance takes it *)
(* to 'minting' and to the mint.                                          *)
C12_FailedMintIsRetried ==
  [][\A p \in Polls :
       /\ (/\ Loads(p)
           /\ RedisGetJson(store[Polled]).status \in {"paid", "needs_funding"}
           /\ ledger.usdc >= REQUIRED_USDC)
          => pc'[p] = "balance"
       /\ (/\ pc[p] = "balance"
           /\ loc[p].loaded.status \in {"paid", "needs_funding"}
           /\ ledger.usdc >= REQUIRED_USDC
           /\ loc'[p].balance >= REQUIRED_USDC)
          => pc'[p] = "setMinting" /\ loc'[p].session.status = "minting"]_vars

(* C13: 'minting' is never what a poll leaves behind: once no poll is in  *)
(* flight, the stored status is not 'minting' (it has become 'minted',    *)
(* 'swept', 'paid' or 'needs_funding').                                    *)
C13_MintingIsLeft ==
  (\A p \in Polls : ~InFlight(p)) => RedisGetJson(store[Polled]).status # "minting"

(* C14: however create-session requests interleave, every session that   *)
(* has its keypair holds an index the store's increment handed out, its   *)
(* escrow key is the one derived at 1000 + sessionIndex, that derivation  *)
(* index is not the treasury's index 0, and no other session has the same *)
(* index or the same escrow address.                                       *)
C14_DistinctEscrowKeys ==
  \A c \in Creators :
    creator[c].session.paymentAddress # NoAddress
    => /\ creator[c].session.sessionIndex \in 1..counter
       /\ creator[c].session.paymentAddress =
            deriveKeypair(SESSION_OFFSET + creator[c].session.sessionIndex)
       /\ SESSION_OFFSET + creator[c].session.sessionIndex # MASTER_INDEX
       /\ creator[c].session.paymentAddress # getMasterKeypair
       /\ \A d \in Creators \ {c} :
            creator[d].session.paymentAddress # NoAddress
            => /\ creator[d].session.sessionIndex # creator[c].session.sessionIndex
               /\ creator[d].session.paymentAddress # creator[c].session.paymentAddress

(* Two requests ran at the same time, the second got its index first, and *)
(* both sessions were made.                                                *)
C14_Witness ==
  /\ creator[1].code = 200
  /\ creator[2].code = 200
  /\ creator[2].session.sessionIndex = 1
  /\ creator[1].session.sessionIndex = 2
  /\ store[1].val.paymentAddress = getSessionKeypair(1)
  /\ store[2].val.paymentAddress = getSessionKeypair(2)

(* C15: a step that moves USDC or SOL out of the escrow is a sweep step   *)
(* of a poll whose mintNft succeeded, taken while the store holds the     *)
(* session with status 'minted' and the mint address of that poll.        *)
C15_SweepAfterStoredMint ==
  [][(ledger'.usdc < ledger.usdc \/ ledger'.sol < ledger.sol)
     => \E p \in Polls :
          /\ pc[p] \in {"sweepUsdcSend", "sweepSol"}
          /\ pc'[p] # pc[p]
          /\ loc[p].outcome = "ok"
          /\ loc[p].session.mintAddress # 0
          /\ RedisGetJson(store[Polled]).status = "minted"
          /\ RedisGetJson(store[Polled]).mintAddress = loc[p].session.mintAddress]_vars

(* Both sweep transfers went out, after a mint. *)
C15_Witness ==
  /\ pc[1] = "setSwept"
  /\ loc[1].session.sweepSignature # 0
  /\ ledger.txs[1].owner = ESCROW
  /\ ledger.usdc = 0
  /\ ledger.sol = 0
  /\ store[Polled].val.status = "minted"

(* C16: the createNft transaction is submitted only by a poll whose       *)
(* metadata upload came back with a content identifier; a poll whose      *)
(* upload failed creates no asset and ends with 'paid' stored and          *)
(* answered.                                                               *)
C16_UploadBeforeMint ==
  [][/\ ledger'.mints # ledger.mints
        => \E p \in Polls : pc[p] = "mintTx" /\ loc[p].outcome = "uploaded"
     /\ \A p \in Polls :
          /\ (pc[p] = "mint" /\ loc'[p].outcome = "upload")
             => /\ ledger'.mints = ledger.mints
                /\ pc'[p] = "setFail"
                /\ loc'[p].session.status = "paid"
          /\ (pc[p] = "setFail" /\ loc[p].outcome = "upload" /\ pc'[p] = "done")
             => /\ ledger'.mints = ledger.mints
                /\ store'[Polled].val.status = "paid"
                /\ resp'[p].status = "paid"]_vars

(* C17: a poll that read a sufficient balance and whose mint stopped on a *)
(* missing MASTER_SEED_PHRASE or PINATA_JWT ends with the stored status   *)
(* it had loaded and with the error in its answer; and while a secret is  *)
(* missing, a poll that loads 'paid' or 'needs_funding' does not go on    *)
(* towards the mint.                                                       *)
C17_MissingSecretIsFatal ==
  [][\A p \in Polls :
       /\ (/\ pc[p] = "setFail"
           /\ loc[p].outcome = "config"
           /\ loc[p].balanceRead
           /\ pc'[p] = "done")
          => /\ RedisGetJson(store'[Polled]).status = loc[p].loaded.status
             /\ resp'[p].error \in {MsgSeed, MsgJwt}
       /\ (/\ Loads(p)
           /\ ~(env.seed /\ env.jwt)
           /\ RedisGetJson(store[Polled]).status \in {"paid", "needs_funding"})
          => pc'[p] = "done"]_vars

(* C18: the asset a poll mints goes to the buyer its sender detection     *)
(* returned, and to the treasury when the detection returned null; the    *)
(* detection never ends the poll, whatever it returns.                     *)
C18_MintRecipient ==
  [][\A p \in Polls :
       /\ (pc[p] = "mintTx" /\ pc'[p] = "setMinted")
          => /\ Len(ledger'.mints) = Len(ledger.mints) + 1
             /\ loc[p].buyerWallet # NULL
                => ledger'.mints[Len(ledger'.mints)] = loc[p].buyerWallet
             /\ loc[p].buyerWallet = NULL
                => ledger'.mints[Len(ledger'.mints)] = TREASURY
       /\ pc[p] = "findSender"
          => /\ pc'[p] \in {"findSender", "setBuyer"}
             /\ loc'[p].buyerWallet \in {NULL} \cup {Buyers[i] : i \in DOMAIN Buyers}]_vars

(* A payment was made, sender detection returned null, and the session is *)
(* 'minted' with the asset at the treasury.                                *)
C18_Witness ==
  /\ Deposits > 0
  /\ store[Polled].val.status = "minted"
  /\ store[Polled].val.buyerWallet = NULL
  /\ store[Polled].val.mintAddress = 1
  /\ ledger.mints = <<TREASURY>>

(* C19: a poll without the test flag that loaded an unexpired 'pending'   *)
(* session and finds less than REQUIRED_USDC at the escrow address        *)
(* answers 200 'pending' with the session's payment address, the required *)
(* amount and the balance it read as receivedUsdc, and leaves the store   *)
(* (value and eviction time of every key) as it was.                      *)
C19_PendingPollChangesNothing ==
  [][\A p \in Polls :
       (/\ pc[p] = "balance"
        /\ pc'[p] # "balance"
        /\ ~loc[p].testMode
        /\ loc[p].loaded.status = "pending"
        /\ ledger.usdc < REQUIRED_USDC)
       => /\ pc'[p] = "done"
          /\ resp'[p].code = 200
          /\ resp'[p].status = "pending"
          /\ resp'[p].paymentAddress = getSessionKeypair(Polled)
          /\ resp'[p].requiredUsdc = REQUIRED_USDC
          /\ resp'[p].receivedUsdc \in {ledger.usdc, 0}
          /\ UNCHANGED <<store, addrKey, ledger, counter>>]_vars

(* A payment that is too small has been made and the poll reported it;    *)
(* the session is still 'pending' with the time-to-live of its creation.  *)
C19_Witness ==
  /\ Answered(1)
  /\ resp[1].code = 200
  /\ resp[1].status = "pending"
  /\ resp[1].receivedUsdc = 1000000
  /\ ledger.usdc = 1000000
  /\ resp[1].paymentAddress = store[Polled].val.paymentAddress
  /\ store[Polled].val.status = "pending"
  /\ store[Polled].evictAt = SESSION_TTL

(* All the USDC the sweeps have moved out of the escrow address. *)
RECURSIVE C20_SumSwept(_, _)
C20_SumSwept(txs, i) ==
  IF i > Len(txs) THEN 0
  ELSE (IF txs[i].owner = ESCROW THEN txs[i].amount ELSE 0) + C20_SumSwept(txs, i + 1)

(* C20: with no payment after the first poll, the sweep of a poll that    *)
(* loaded 'swept' (a sweep has completed before it) finds nothing to do:  *)
(* sweepUsdc reads 0 and returns null, sweepSol finds no more than the    *)
(* fee and returns null, and the ledger does not change; and the sweeps   *)
(* never move more USDC out of the escrow than it received.               *)
C20_SecondSweepIsNoOp ==
  [][/\ C20_SumSwept(ledger.txs, 1) <= Received
     /\ \A p \in Polls :
          loc[p].loaded.status = "swept"
          => /\ (pc[p] = "sweepUsdc" /\ pc'[p] # "sweepUsdc")
                => pc'[p] = "sweepSol" /\ ledger' = ledger
             /\ (pc[p] = "sweepSol" /\ pc'[p] # "sweepSol")
                => ledger.sol - SOL_FEE <= 0 /\ ledger' = ledger]_vars

(* C21: once a poll of the session has answered 'expired', no mint        *)
(* transaction is submitted for it and no poll answers 'minting' or       *)
(* 'minted', whatever other polls are in flight.                           *)
C21_ExpiredIsTerminal ==
  [][(\E q \in Polls : Answered(q) /\ resp[q].status = "expired")
     => /\ ledger'.mints = ledger.mints
        /\ \A p \in Polls :
             resp'[p].status \in {"minting", "minted"} => resp'[p] = resp[p]]_vars

(* C22: while a poll is at sender detection, at the write of the buyer or *)
(* in the mint step, the last value written for the session has status    *)
(* 'minting'; in the mint step it also has the buyer this poll detected;  *)
(* while the poll is in the sweep, the last value written has status      *)
(* 'minted' with this poll's mint address and signature, up to the write *)
(* of 'swept', the last step.                                              *)
C22_StepsArePersistedInOrder ==
  \A p \in Polls :
    /\ pc[p] \in {"findSender", "setBuyer", "mint", "mintTx"}
       => store[Polled].val.status = "minting"
    /\ pc[p] \in {"mint", "mintTx"}
       => store[Polled].val.buyerWallet = loc[p].buyerWallet
    /\ pc[p] \in {"sweepUsdc", "sweepUsdcSend", "sweepSol", "setSwept"}
       => /\ loc[p].session.mintAddress # 0
          /\ store[Polled].val.status = "minted"
          /\ store[Polled].val.mintAddress = loc[p].session.mintAddress
          /\ store[Polled].val.mintSignature = loc[p].session.mintSignature

(* The poll has stored 'minting', the buyer and 'minted', and both sweep  *)
(* transfers are done; 'swept' is about to be written.                     *)
C22_Witness ==
  /\ pc[1] = "setSwept"
  /\ loc[1].balanceRead
  /\ loc[1].buyerWallet = Buyers[1]
  /\ store[Polled].val.status = "minted"
  /\ store[Polled].val.buyerWallet = Buyers[1]
  /\ ledger.mints = <<Buyers[1]>>
  /\ ledger.usdc = 0

(* C23: sweepUsdc moves exactly the USDC balance it read and submits      *)
(* nothing when it read 0; sweepSol, which runs after it, moves the SOL   *)
(* balance less 5000 lamports and submits nothing when that is not above  *)
(* 0; a throw of the USDC transfer ends the sweep: no SOL moves and       *)
(* 'swept' is not stored.                                                  *)
C23_SweepAmounts ==
  [][\A p \in Polls :
       /\ (pc[p] = "sweepUsdc" /\ pc'[p] # "sweepUsdc")
          => /\ ledger' = ledger
             /\ pc'[p] = "sweepUsdcSend" => loc'[p].toSend \in {ledger.usdc} \ {0}
             /\ pc'[p] = "sweepSol" => loc'[p].session.sweepSignature = 0
       /\ (pc[p] = "sweepUsdcSend" /\ pc'[p] = "sweepSol")
          => /\ ledger.usdc - ledger'.usdc = loc[p].toSend
             /\ ledger'.txs[1] = [owner |-> ESCROW, amount |-> loc[p].toSend]
             /\ ledger'.solOut = ledger.solOut
       /\ (pc[p] = "sweepUsdcSend" /\ pc'[p] \notin {"sweepUsdcSend", "sweepSol"})
          => /\ pc'[p] = "done"
             /\ ledger' = ledger
             /\ store' = store
             /\ store[Polled].val.status # "swept"
       /\ (pc[p] = "sweepSol" /\ pc'[p] = "setSwept")
          => /\ ledger'.usdc = ledger.usdc
             /\ ledger.sol - 5000 > 0 => ledger'.solOut - ledger.solOut = ledger.sol - 5000
             /\ ledger.sol - 5000 <= 0 => ledger' = ledger
       /\ ledger'.solOut # ledger.solOut
          => \E q \in Polls : pc[q] = "sweepSol"]_vars

(* Both transfers went out: the USDC the escrow held, then its SOL less   *)
(* the fees.                                                               *)
C23_Witness ==
  /\ pc[1] = "setSwept"
  /\ ledger.txs # <<>>
  /\ ledger.txs[1] = [owner |-> ESCROW, amount |-> REQUIRED_USDC]
  /\ ledger.usdc = 0
  /\ ledger.solOut = ATA_INIT_LAMPORTS - 2 * SOL_FEE
  /\ ledger.sol = 0

(* C24: a write to the session's key never brings forward the instant at  *)
(* which the store evicts it.                                              *)
C24_WritesExtendTimeToLive ==
  [][store'[Polled] # store[Polled]
     => store'[Polled].evictAt >= store[Polled].evictAt]_vars

(* C25: the session record is built 'pending' with null buyer, mint and   *)
(* sweep fields and an expiresAt 30 minutes ahead; when create-session    *)
(* gets to funding the escrow wallet, that record and the address index   *)
(* entry have been written; and the funding step answers 200 and leaves    *)
(* the store alone whether or not the funding went through.               *)
C25_StoredBeforeFunding ==
  [][\A c \in Creators :
       /\ (creator[c].pc = "build" /\ creator'[c].pc = "setSession")
          => /\ creator'[c].session.status = "pending"
             /\ creator'[c].session.buyerWallet = NULL
             /\ creator'[c].session.mintAddress = 0
             /\ creator'[c].session.mintSignature = 0
             /\ creator'[c].session.sweepSignature = 0
             /\ creator'[c].session.expiresAt = now * 1000 + 30 * 60 * 1000
       /\ creator[c].pc = "fund"
          => /\ store[creator[c].session.sessionIndex].val = creator[c].session
             /\ addrKey[creator[c].session.sessionIndex].val = creator[c].session.sessionIndex
       /\ (creator[c].pc = "fund" /\ creator'[c].pc # "fund")
          => /\ creator'[c].pc = "done"
             /\ creator'[c].code = 200
             /\ UNCHANGED <<store, addrKey>>
       /\ ledger'.sol > ledger.sol
          => \E d \in Creators : creator[d].pc = "fund" /\ creator'[d].pc = "done"]_vars

(* The funding failed, the request answered 200, and a poll of the        *)
(* session has answered 'pending'.                                         *)
C25_Witness ==
  /\ Created
  /\ ledger.sol = 0
  /\ ledger.solOut = 0
  /\ store[Polled].val.status = "pending"
  /\ Answered(1)
  /\ resp[1].code = 200
  /\ resp[1].status = "pending"

(* C26: once the store holds 'minted' or 'swept' for the session, no      *)
(* write puts 'pending', 'minting', 'paid' or 'needs_funding' in its      *)
(* place.                                                                  *)
C26_StatusNeverGoesBack ==
  [][store[Polled].val.status \in {"minted", "swept"}
     => store'[Polled].val.status \notin {"pending", "minting", "paid", "needs_funding"}]_vars

(* C27: a stored session record with status 'minted' or 'swept' has a     *)
(* mint address and a mint signature; a stored record with status         *)
(* 'pending' or 'minting' of a session for which no mint has gone through *)
(* has neither.                                                            *)
C27_MintFieldsMatchStatus ==
  LET session == store[Polled].val
  IN  /\ session.status \in {"minted", "swept"}
         => session.mintAddress # 0 /\ session.mintSignature # 0
      /\ (session.status \in {"pending", "minting"} /\ ledger.mints = <<>>)
         => session.mintAddress = 0 /\ session.mintSignature = 0

(* 'swept' is stored with the mint address and signature of the mint;     *)
(* a second poll is in flight.                                             *)
C27_Witness ==
  /\ store[Polled].val.status = "swept"
  /\ store[Polled].val.mintAddress = 1
  /\ store[Polled].val.mintSignature = 1
  /\ ledger.mints # <<>>
  /\ InFlight(2)

====
